---- MODULE Spec2Model ----
(***************************************************************************)
(* A model of chromadb/api/async_fastapi.py: the AsyncFastAPI client, its  *)
(* class-level table of httpx clients keyed by event-loop hash, its        *)
(* lifecycle (start / stop / close / __aenter__ / __aexit__) and the       *)
(* request flow of its domain operations.                                  *)
(*                                                                         *)
(* A task is one caller (a coroutine, or a synchronous caller) running in  *)
(* an execution context.  Tasks of one context run one at a time and give  *)
(* way only where the code awaits; tasks of different contexts run on      *)
(* different threads and interleave between any two statements.            *)
(***************************************************************************)
EXTENDS Integers, Sequences, FiniteSets, TLC

\* ------------------------------------------------------------------ bounds
\* Operations called in one run (start() apart).
MaxOps == 3
\* The max_batch_size the server answers on GET /pre-flight-checks.
ServerMax == 1

\* --------------------------------------------------------------- universe
\* Two AsyncFastAPI instances of one process.
Insts == {"c1", "c2"}
\* The instance each task calls: a1, a2 and f1 share c1, f2 uses c2.
InstOf(t) == IF t = "f2" THEN "c2" ELSE "c1"
\* a1, a2: two coroutines of one asyncio event loop.  f1, f2: two callers on
\* two threads without an asyncio event loop (asyncio.get_event_loop raises
\* RuntimeError there).
Tasks == {"a1", "a2", "f1", "f2"}
ContextOf(t) == IF t \in {"a1", "a2"} THEN "loopA" ELSE t
AsyncioLoops == {"loopA"}
\* loop.__hash__() of each asyncio loop: an identity hash, never 0 here.
HashOf == [l \in AsyncioLoops |-> 1]
Keys == {0} \cup {HashOf[l] : l \in AsyncioLoops}

\* Python's None, and str() of a value.
NoneV == "<None>"
str(v) == IF v = NoneV THEN "None" ELSE v
\* Truthiness of an Optional[str].
Truthy(v) == v # NoneV /\ v # ""

\* The value of _max_batch_size that means "not fetched yet".
Unfetched == -1

DEFAULT_TENANT == "default_tenant"
DEFAULT_DATABASE == "default_database"
CollectionId == "uuid-1"

VARIABLES
    _running,         \* Component._running of each instance
    _max_batch_size,  \* BaseHTTPClient._max_batch_size of each instance
    _clients,         \* AsyncFastAPI._clients: the class-level dict, in insertion order
    conns,            \* every httpx.AsyncClient created: the key it was made for, the
                      \* instance that made it, its aclose() count, and the contexts
                      \* whose dispatches _get_client returned it to
    pc,               \* where each task stands
    op,               \* the operation a task is running ("none" when idle)
    args,             \* its arguments
    conn,             \* the connection the task's request is in flight on (0: none)
    client,           \* _cleanup's local `client` (0: none)
    reqs,             \* the _make_request calls of the task's current operation
    ncleanup,         \* _cleanup runs the task's current operation has completed
    preflights,       \* GET /pre-flight-checks dispatched through each instance
    issued,           \* per key: the connection last returned while its table entry is unchanged
    saw,              \* the task's test on line 111 ran while its key was absent
    nops,             \* operations counted against MaxOps
    ev                \* what the last step showed its caller: a call, or how an operation ended

shared == <<_running, _max_batch_size, _clients, conns, preflights, issued>>
vars == <<_running, _max_batch_size, _clients, conns, pc, op, args, conn,
          client, reqs, ncleanup, preflights, issued, saw, nops, ev>>

\* ------------------------------------------------------- the dict _clients
HasKey(d, k) == \E j \in 1..Len(d) : d[j].k = k
Lookup(d, k) == d[CHOOSE j \in 1..Len(d) : d[j].k = k].c
\* d[k] = c: a new key goes last, an existing key keeps its place.
SetItem(d, k, c) ==
    IF HasKey(d, k)
    THEN [j \in 1..Len(d) |-> IF d[j].k = k THEN [k |-> k, c |-> c] ELSE d[j]]
    ELSE Append(d, [k |-> k, c |-> c])
\* A popitem that answers the last pair and leaves it in the dict.
popitem_peek(d) == [item |-> d[Len(d)], rest |-> d]

\* dict.popitem(): the pair inserted last.
popitem(d) == [item |-> d[Len(d)], rest |-> SubSeq(d, 1, Len(d) - 1)]
InTable(c) == \E j \in 1..Len(_clients) : _clients[j].c = c

ConnIds == 1..Len(conns)
Open(c) == conns[c].closes = 0

\* ------------------------------------------------------------- scheduling
\* Positions inside synchronous code: the task holds its context.
SyncMid == {"gc_new", "gc_ret", "cl_test", "cl_pop", "stop"}
\* A _cleanup run by stop()'s sync_cleanup blocks its thread to completion.
InSyncCleanup(t) == op[t] = "stop" \/ (op[t] = "close" /\ ncleanup[t] >= 1)
Holds(t) == pc[t] \in SyncMid \/ (pc[t] = "cl_close" /\ InSyncCleanup(t))
CanRun(t) == \A u \in Tasks \ {t} : ContextOf(u) = ContextOf(t) => ~Holds(u)

\* ------------------------------------------------------- requests, results
Request(m, p, q, b) == [method |-> m, path |-> p, params |-> q, json |-> b]
NoReq == Request("", <<>>, {}, "")
Raise(e) == [kind |-> "raise", err |-> e, req |-> NoReq, val |-> 0]
Send(r) == [kind |-> "send", err |-> "none", req |-> r, val |-> 0]
Return(v) == [kind |-> "return", err |-> "none", req |-> NoReq, val |-> v]

PreflightPath == <<"/pre-flight-checks">>
NoArgs == [name |-> NoneV, id |-> NoneV, n |-> 0, ok |-> TRUE]

\* An operation t called on a client that was (not) running ended with res
\* after the dispatches rq; called: it ended in the step that called it.
Ended(t, o, a, r, rq, k, called, running) ==
    [what |-> "done", t |-> t, op |-> o, args |-> a, res |-> r, reqs |-> rq,
     ncleanup |-> k, called |-> called, running |-> running]
\* An operation was called and goes on.
Called(t, o, a, rq, running) ==
    [what |-> "call", t |-> t, op |-> o, args |-> a, res |-> "none", reqs |-> rq,
     ncleanup |-> 0, called |-> TRUE, running |-> running]
NoEv ==
    [what |-> "none", t |-> "", op |-> "none", args |-> NoArgs, res |-> "none",
     reqs |-> <<>>, ncleanup |-> 0, called |-> FALSE, running |-> FALSE]

\* Component._raise_for_running: TRUE when it raises.
_raise_for_running(i) == ~_running[i]

\* ---------------------------------------------------------- _get_client
\* A _get_client that uses the singleton key for every caller.
loop_hash_singleton(t) == 0

\* Lines 104-109: the hash of the current asyncio loop, 0 when there is none.
loop_hash(t) ==
    IF ContextOf(t) \in AsyncioLoops THEN HashOf[ContextOf(t)] ELSE 0

\* A _get_client that makes a new client on every call.
NotInClients_always(d, k) == TRUE

\* Line 111: `loop_hash not in self._clients`.
NotInClients(d, k) == ~HasKey(d, k)

\* Line 114: `self._clients[loop_hash]`.
ClientFor(d, k) == Lookup(d, k)

\* ------------------------------------------------------ domain operations
\* A heartbeat without the running check of line 137.
heartbeat_ungated(i) == Send(Request("get", <<"">>, {}, ""))

heartbeat(i) ==
    IF _raise_for_running(i) THEN Raise("LifecycleError")
    ELSE Send(Request("get", <<"">>, {}, ""))

get_collection_path(name, id) ==
    IF Truthy(name) THEN <<"/collections/", name>> ELSE <<str(id)>>

get_collection_params(id, tenant, database) ==
    {<<"tenant", tenant>>, <<"database", database>>}
        \cup (IF id # NoneV THEN {<<"type", str(id)>>} ELSE {})

\* A get_collection that rejects only the call with neither name nor id.
get_collection_lax(i, name, id) ==
    IF _raise_for_running(i) THEN Raise("LifecycleError")
    ELSE IF name = NoneV /\ id = NoneV
    THEN Raise("ValueError")
    ELSE Send(Request("get", get_collection_path(name, id),
                      get_collection_params(id, DEFAULT_TENANT, DEFAULT_DATABASE), ""))

get_collection(i, name, id) ==
    IF _raise_for_running(i) THEN Raise("LifecycleError")
    ELSE IF (name = NoneV /\ id = NoneV) \/ (name # NoneV /\ id # NoneV)
    THEN Raise("ValueError")
    ELSE Send(Request("get", get_collection_path(name, id),
                      get_collection_params(id, DEFAULT_TENANT, DEFAULT_DATABASE), ""))

\* A get_max_batch_size that never fetches.
get_max_batch_size_unfetching(i) ==
    IF _raise_for_running(i) THEN Raise("LifecycleError")
    ELSE Return(_max_batch_size[i])

\* A get_max_batch_size that fetches on every call.
get_max_batch_size_uncached(i) ==
    IF _raise_for_running(i) THEN Raise("LifecycleError")
    ELSE Send(Request("get", <<"/pre-flight-checks">>, {}, ""))

get_max_batch_size(i) ==
    IF _raise_for_running(i) THEN Raise("LifecycleError")
    ELSE IF _max_batch_size[i] = Unfetched
    THEN Send(Request("get", PreflightPath, {}, ""))
    ELSE Return(_max_batch_size[i])

\* chromadb.api.types.validate_batch: TRUE when the batch passes.
validate_batch(a, max) == a.ok /\ a.n <= max

_submit_batch(i, url) ==
    IF _raise_for_running(i) THEN Raise("LifecycleError")
    ELSE Send(Request("post", url, {}, "batch"))

\* Every batch goes to the add endpoint.
BatchUrl_add(o) == <<"/collections/", str(CollectionId), "/add">>

BatchUrl(o) == <<"/collections/", str(CollectionId), "/" \o o>>

\* An _add that submits the batch without validate_batch.
_add_unvalidated(i, o, a, max) ==
    IF _raise_for_running(i) THEN Raise("LifecycleError")
    ELSE Send(Request("post", <<"/collections/", str(CollectionId), "/" \o o>>, {}, "batch"))

\* _add / _update / _upsert once get_max_batch_size has returned max.
_add_validated(i, o, a, max) ==
    IF ~validate_batch(a, max) THEN Raise("ValueError")
    ELSE _submit_batch(i, BatchUrl(o))

\* _add / _update / _upsert up to their first await.
_add(i, o, a) ==
    IF _raise_for_running(i) THEN Raise("LifecycleError")
    ELSE LET m == get_max_batch_size(i)
         IN  IF m.kind = "return" THEN _add_validated(i, o, a, m.val) ELSE m

\* ----------------------------------------------------------- get and query
\* Python values of the get / query interface: None, an int, a list.
PyNone == [none |-> TRUE]
PyInt(v) == [int |-> v]
PyList(s) == [list |-> s]
\* Truthiness of an Optional[int]: None and 0 are false.
bool(v) == v # PyNone /\ v # PyInt(0)

\* Lines 390-392 and the limit / offset of the body, lines 399-400.
Paginate(page, page_size, limit, offset) ==
    IF bool(page) /\ bool(page_size)
    THEN [offset |-> PyInt((page.int - 1) * page_size.int), limit |-> page_size]
    ELSE [offset |-> offset, limit |-> limit]

GetArgs(page, page_size, limit, offset, include) ==
    [name |-> NoneV, id |-> NoneV, n |-> 0, ok |-> TRUE, page |-> page,
     page_size |-> page_size, limit |-> limit, offset |-> offset,
     include |-> include]

\* _get up to its await, lines 389-406.
_get(i, a) ==
    IF _raise_for_running(i) THEN Raise("LifecycleError")
    ELSE Send(Request("post", <<"/collections/", str(CollectionId), "/get">>, {},
                      [limit |-> Paginate(a.page, a.page_size, a.limit, a.offset).limit,
                       offset |-> Paginate(a.page, a.page_size, a.limit, a.offset).offset,
                       include |-> a.include]))

\* _query up to its await, lines 552-564.
_query(i, a) ==
    IF _raise_for_running(i) THEN Raise("LifecycleError")
    ELSE Send(Request("post", <<"/collections/", str(CollectionId), "/query">>, {},
                      [include |-> a.include]))

\* A dict.get that answers an empty list for a missing key.
dict_get_empty(d, k, default) == IF k \in DOMAIN d THEN d[k] ELSE PyList(<<>>)

\* dict.get(k, default) on the decoded response.
dict_get(d, k, default) == IF k \in DOMAIN d THEN d[k] ELSE default

\* Lines 408-416.
GetResult(resp_json, include) ==
    [ids |-> resp_json["ids"],
     embeddings |-> dict_get(resp_json, "embeddings", PyNone),
     metadatas |-> dict_get(resp_json, "metadatas", PyNone),
     documents |-> dict_get(resp_json, "documents", PyNone),
     data |-> PyNone,
     uris |-> dict_get(resp_json, "uris", PyNone),
     included |-> dict_get(resp_json, "included", include)]

\* Lines 566-575.
QueryResult(resp_json, include) ==
    [ids |-> resp_json["ids"],
     distances |-> dict_get(resp_json, "distances", PyNone),
     embeddings |-> dict_get(resp_json, "embeddings", PyNone),
     metadatas |-> dict_get(resp_json, "metadatas", PyNone),
     documents |-> dict_get(resp_json, "documents", PyNone),
     uris |-> dict_get(resp_json, "uris", PyNone),
     data |-> PyNone,
     included |-> dict_get(resp_json, "included", include)]

\* ---------------------------------------------------------------- actions
Init ==
    /\ _running = [i \in Insts |-> FALSE]
    /\ _max_batch_size = [i \in Insts |-> Unfetched]
    /\ _clients = <<>>
    /\ conns = <<>>
    /\ pc = [t \in Tasks |-> "idle"]
    /\ op = [t \in Tasks |-> "none"]
    /\ args = [t \in Tasks |-> NoArgs]
    /\ conn = [t \in Tasks |-> 0]
    /\ client = [t \in Tasks |-> 0]
    /\ reqs = [t \in Tasks |-> <<>>]
    /\ ncleanup = [t \in Tasks |-> 0]
    /\ preflights = [i \in Insts |-> 0]
    /\ issued = [k \in Keys |-> 0]
    /\ saw = [t \in Tasks |-> FALSE]
    /\ nops = 0
    /\ ev = NoEv

\* The operation of task t ends: its frame is gone, its caller sees e.
Finish(t, e) ==
    /\ pc' = [pc EXCEPT ![t] = "idle"]
    /\ op' = [op EXCEPT ![t] = "none"]
    /\ args' = [args EXCEPT ![t] = NoArgs]
    /\ reqs' = [reqs EXCEPT ![t] = <<>>]
    /\ ncleanup' = [ncleanup EXCEPT ![t] = 0]
    /\ ev' = e

\* What operation o of task t does with the outcome of its synchronous code:
\* raise, return, or enter _make_request with rq the dispatches so far;
\* _make_request calls _get_client, whose line 111 tests the table.
Apply(t, o, a, step, rq, called) ==
    /\ IF step.kind = "send"
       THEN /\ pc' = [pc EXCEPT ![t] = IF NotInClients(_clients, loop_hash(t))
                                       THEN "gc_new" ELSE "gc_ret"]
            /\ op' = [op EXCEPT ![t] = o]
            /\ args' = [args EXCEPT ![t] = a]
            /\ reqs' = [reqs EXCEPT ![t] = Append(rq, step.req)]
            /\ ncleanup' = [ncleanup EXCEPT ![t] = 0]
            /\ ev' = IF called
                     THEN Called(t, o, a, Append(rq, step.req), _running[InstOf(t)])
                     ELSE NoEv
       ELSE Finish(t, Ended(t, o, a,
                            IF step.kind = "raise" THEN step.err ELSE "ok",
                            rq, 0, called, _running[InstOf(t)]))
    /\ preflights' = [preflights EXCEPT ![InstOf(t)] =
                        IF step.kind = "send" /\ step.req.path = PreflightPath
                        THEN @ + 1 ELSE @]
    /\ saw' = [saw EXCEPT ![t] = step.kind = "send" /\ ~HasKey(_clients, loop_hash(t))]

\* Task t may call an operation.
CanCall(t) == pc[t] = "idle" /\ CanRun(t)
Counted == nops < MaxOps /\ nops' = nops + 1

CallHeartbeat(t) ==
    /\ CanCall(t)
    /\ Counted
    /\ Apply(t, "heartbeat", NoArgs, heartbeat(InstOf(t)), <<>>, TRUE)
    /\ UNCHANGED <<_running, _max_batch_size, _clients, conns, conn, client, issued>>

CallGetCollection(t, name, id) ==
    /\ CanCall(t)
    /\ Counted
    /\ Apply(t, "get_collection", [NoArgs EXCEPT !.name = name, !.id = id],
             get_collection(InstOf(t), name, id), <<>>, TRUE)
    /\ UNCHANGED <<_running, _max_batch_size, _clients, conns, conn, client, issued>>

CallGetMaxBatchSize(t) ==
    /\ CanCall(t)
    /\ Counted
    /\ Apply(t, "get_max_batch_size", NoArgs, get_max_batch_size(InstOf(t)), <<>>, TRUE)
    /\ UNCHANGED <<_running, _max_batch_size, _clients, conns, conn, client, issued>>

\* _add, _update, _upsert: o is "add", "update" or "upsert".
CallAdd(t, o, n, ok) ==
    /\ CanCall(t)
    /\ Counted
    /\ Apply(t, o, [NoArgs EXCEPT !.n = n, !.ok = ok],
             _add(InstOf(t), o, [NoArgs EXCEPT !.n = n, !.ok = ok]), <<>>, TRUE)
    /\ UNCHANGED <<_running, _max_batch_size, _clients, conns, conn, client, issued>>

CallGet(t, page, page_size, limit, offset, include) ==
    /\ CanCall(t)
    /\ Counted
    /\ Apply(t, "get", GetArgs(page, page_size, limit, offset, include),
             _get(InstOf(t), GetArgs(page, page_size, limit, offset, include)),
             <<>>, TRUE)
    /\ UNCHANGED <<_running, _max_batch_size, _clients, conns, conn, client, issued>>

CallQuery(t, include) ==
    /\ CanCall(t)
    /\ Counted
    /\ Apply(t, "query", GetArgs(PyNone, PyNone, PyNone, PyNone, include),
             _query(InstOf(t), GetArgs(PyNone, PyNone, PyNone, PyNone, include)),
             <<>>, TRUE)
    /\ UNCHANGED <<_running, _max_batch_size, _clients, conns, conn, client, issued>>

\* An operation that starts with no running check and no request.
Enter(t, o, at) ==
    /\ CanCall(t)
    /\ Counted
    /\ pc' = [pc EXCEPT ![t] = at]
    /\ op' = [op EXCEPT ![t] = o]
    /\ ev' = Called(t, o, NoArgs, <<>>, _running[InstOf(t)])
    /\ saw' = [saw EXCEPT ![t] = at \in {"gc_new", "gc_ret"} /\ ~HasKey(_clients, loop_hash(t))]
    /\ UNCHANGED <<args, reqs, ncleanup, conn, client>>

\* __aenter__, line 73: _get_client().
CallAenter(t) ==
    /\ Enter(t, "aenter", IF NotInClients(_clients, loop_hash(t))
                          THEN "gc_new" ELSE "gc_ret")
    /\ UNCHANGED <<_running, _max_batch_size, _clients, conns, preflights, issued>>

\* __aexit__, line 82: await self._cleanup().
CallAexit(t) ==
    /\ Enter(t, "aexit", "cl_test")
    /\ UNCHANGED shared

\* A close() that goes to stop() without awaiting _cleanup.
close_unawaited == "stop"

\* close(), line 607: await self._cleanup() comes first.
close_first == "cl_test"

CallClose(t) ==
    /\ Enter(t, "close", close_first)
    /\ UNCHANGED shared

\* stop() called on its own.
CallStop(t) ==
    /\ Enter(t, "stop", "stop")
    /\ UNCHANGED shared

\* start(): Component.start sets _running.
Start(i) ==
    /\ ~_running[i]
    /\ _running' = [_running EXCEPT ![i] = TRUE]
    /\ ev' = NoEv
    /\ UNCHANGED <<_max_batch_size, _clients, conns, pc, op, args, conn,
                   client, reqs, ncleanup, preflights, issued, saw, nops>>

\* _get_client, line 112.
GetClientNew(t) ==
    /\ pc[t] = "gc_new"
    /\ CanRun(t)
    /\ conns' = Append(conns, [key |-> loop_hash(t), by |-> InstOf(t),
                               closes |-> 0, ctxs |-> {}])
    /\ _clients' = SetItem(_clients, loop_hash(t), Len(conns) + 1)
    /\ issued' = [issued EXCEPT ![loop_hash(t)] = IF saw[t] THEN 0 ELSE @]
    /\ saw' = [saw EXCEPT ![t] = FALSE]
    /\ pc' = [pc EXCEPT ![t] = "gc_ret"]
    /\ ev' = NoEv
    /\ UNCHANGED <<_running, _max_batch_size, op, args, conn, client, reqs,
                   ncleanup, preflights, nops>>

\* _get_client, line 114, and what the caller does with the connection:
\* __aenter__ returns; _make_request sends the request on it and awaits.
GetClientReturn(t) ==
    /\ pc[t] = "gc_ret"
    /\ CanRun(t)
    /\ IF HasKey(_clients, loop_hash(t))
       THEN LET c == ClientFor(_clients, loop_hash(t))
            IN  /\ issued' = [issued EXCEPT ![loop_hash(t)] = c]
                /\ conns' = [conns EXCEPT ![c].ctxs =
                                IF op[t] = "aenter" THEN @ ELSE @ \cup {ContextOf(t)}]
                /\ IF op[t] = "aenter"
                   THEN /\ Finish(t, Ended(t, op[t], args[t], "ok", reqs[t], 0,
                                           FALSE, _running[InstOf(t)]))
                        /\ UNCHANGED conn
                   ELSE /\ conn' = [conn EXCEPT ![t] = c]
                        /\ pc' = [pc EXCEPT ![t] = "await"]
                        /\ ev' = NoEv
                        /\ UNCHANGED <<op, args, reqs, ncleanup>>
       ELSE /\ Finish(t, Ended(t, op[t], args[t], "KeyError", reqs[t], 0,
                               FALSE, _running[InstOf(t)]))
            /\ UNCHANGED <<conn, conns, issued>>
    /\ UNCHANGED <<_running, _max_batch_size, _clients, client, preflights, saw, nops>>

Outcomes == {"ok", "TransportError", "RemoteError", "DecodeError"}

\* A _make_request that sends a failed request once more.
Response_retry(t, out) ==
    /\ pc[t] = "await"
    /\ CanRun(t)
    /\ Len(reqs[t]) < 3
    /\ Apply(t, op[t], args[t],
             IF out # "ok" THEN Send(reqs[t][Len(reqs[t])]) ELSE Return(0),
             reqs[t], FALSE)
    /\ conn' = [conn EXCEPT ![t] = 0]
    /\ UNCHANGED <<_running, _max_batch_size, _clients, conns, client, issued, nops>>

\* The awaited request ends: lines 130-132, then the rest of the operation
\* up to its next await.
Response(t, out) ==
    /\ pc[t] = "await"
    /\ CanRun(t)
    /\ LET i == InstOf(t)
           fetched == /\ out = "ok"
                      /\ reqs[t][Len(reqs[t])].path = PreflightPath
           step == IF out # "ok" THEN Raise(out)
                   ELSE IF op[t] \in {"add", "update", "upsert"} /\ fetched
                   THEN _add_validated(i, op[t], args[t], ServerMax)
                   ELSE Return(0)
       IN  /\ _max_batch_size' = IF fetched
                                 THEN [_max_batch_size EXCEPT ![i] = ServerMax]
                                 ELSE _max_batch_size
           /\ Apply(t, op[t], args[t], step, reqs[t], FALSE)
    /\ conn' = [conn EXCEPT ![t] = 0]
    /\ UNCHANGED <<_running, _clients, conns, client, issued, nops>>

\* The awaited request of _get / _query ends with a success status and the
\* decoded body resp_json (distances only in an answer to query): the caller
\* receives the marshaled result.
ResponseJson(t, resp_json) ==
    /\ pc[t] = "await"
    /\ CanRun(t)
    /\ op[t] \in {"get", "query"}
    /\ "distances" \in DOMAIN resp_json => op[t] = "query"
    /\ Finish(t, Ended(t, op[t], args[t], "ok", reqs[t], 0, FALSE,
                       _running[InstOf(t)])
                 @@ [body |-> resp_json,
                     val |-> IF op[t] = "get"
                             THEN GetResult(resp_json, args[t].include)
                             ELSE QueryResult(resp_json, args[t].include)])
    /\ conn' = [conn EXCEPT ![t] = 0]
    /\ saw' = [saw EXCEPT ![t] = FALSE]
    /\ UNCHANGED <<_running, _max_batch_size, _clients, conns, client,
                   preflights, issued, nops>>

\* _cleanup, line 77; when the loop ends, the caller goes on: close() to
\* stop(), the others return.
CleanupTest(t) ==
    /\ pc[t] = "cl_test"
    /\ CanRun(t)
    /\ IF Len(_clients) > 0
       THEN /\ pc' = [pc EXCEPT ![t] = "cl_pop"]
            /\ ev' = NoEv
            /\ UNCHANGED <<op, args, reqs, ncleanup>>
       ELSE IF op[t] = "close" /\ ncleanup[t] = 0
       THEN /\ pc' = [pc EXCEPT ![t] = "stop"]
            /\ ncleanup' = [ncleanup EXCEPT ![t] = 1]
            /\ ev' = NoEv
            /\ UNCHANGED <<op, args, reqs>>
       ELSE Finish(t, Ended(t, op[t], args[t], "ok", reqs[t], ncleanup[t] + 1,
                            FALSE, _running[InstOf(t)]))
    /\ UNCHANGED <<_running, _max_batch_size, _clients, conns, conn,
                   client, preflights, issued, saw, nops>>

\* _cleanup, line 78.
CleanupPop(t) ==
    /\ pc[t] = "cl_pop"
    /\ CanRun(t)
    /\ IF Len(_clients) > 0
       THEN /\ client' = [client EXCEPT ![t] = popitem(_clients).item.c]
            /\ _clients' = popitem(_clients).rest
            /\ issued' = [issued EXCEPT ![popitem(_clients).item.k] = 0]
            /\ pc' = [pc EXCEPT ![t] = "cl_close"]
            /\ ev' = NoEv
            /\ UNCHANGED <<op, args, reqs, ncleanup>>
       ELSE /\ Finish(t, Ended(t, op[t], args[t], "KeyError", reqs[t], ncleanup[t],
                               FALSE, _running[InstOf(t)]))
            /\ UNCHANGED <<client, _clients, issued>>
    /\ UNCHANGED <<_running, _max_batch_size, conns, conn, preflights, saw, nops>>

\* _cleanup, line 79: the awaited aclose() completes.
CleanupClose(t) ==
    /\ pc[t] = "cl_close"
    /\ CanRun(t)
    /\ conns' = [conns EXCEPT ![client[t]].closes = @ + 1]
    /\ client' = [client EXCEPT ![t] = 0]
    /\ pc' = [pc EXCEPT ![t] = "cl_test"]
    /\ ev' = NoEv
    /\ UNCHANGED <<_running, _max_batch_size, _clients, op, args, conn, reqs,
                   ncleanup, preflights, issued, saw, nops>>

\* stop(), lines 90-96: Component.stop clears _running; sync_cleanup() may
\* run _cleanup to completion when the caller has no running loop
\* (run = TRUE) and does not run it inside a running loop (the comment on
\* line 607).  In close(), self._system.stop() follows and the call returns.
Stop(t, run) ==
    /\ pc[t] = "stop"
    /\ CanRun(t)
    /\ run => ContextOf(t) \notin AsyncioLoops
    /\ _running' = [_running EXCEPT ![InstOf(t)] = FALSE]
    /\ IF run
       THEN /\ pc' = [pc EXCEPT ![t] = "cl_test"]
            /\ ev' = NoEv
            /\ UNCHANGED <<op, args, reqs, ncleanup>>
       ELSE Finish(t, Ended(t, op[t], args[t], "ok", reqs[t], ncleanup[t],
                            FALSE, FALSE))
    /\ UNCHANGED <<_max_batch_size, _clients, conns, conn, client,
                   preflights, issued, saw, nops>>

\* ---------------------------------------------------------- specifications
\* The registry and the lifecycle: dispatches against start, stop, close,
\* __aenter__ and __aexit__, by the tasks T.
RegistryNext(T) ==
    \/ \E i \in Insts : Start(i)
    \/ \E t \in T : CallHeartbeat(t)
    \/ \E t \in T : CallAenter(t)
    \/ \E t \in T : CallAexit(t)
    \/ \E t \in T : CallClose(t)
    \/ \E t \in T : CallStop(t)
    \/ \E t \in T : GetClientNew(t)
    \/ \E t \in T : GetClientReturn(t)
    \/ \E t \in T, out \in Outcomes : Response(t, out)
    \/ \E t \in T : CleanupTest(t)
    \/ \E t \in T : CleanupPop(t)
    \/ \E t \in T : CleanupClose(t)
    \/ \E t \in T, run \in BOOLEAN : Stop(t, run)

\* One coroutine of an asyncio loop and two threads without a loop, which
\* share the fallback key.
RegTasks == {"a1", "f1", "f2"}
Next == RegistryNext(RegTasks)
Spec == Init /\ [][Next]_vars

\* Two coroutines of one asyncio loop on one instance, and a thread without
\* a loop on the other instance: no two threads share a key.
LoopTasks == {"a1", "a2", "f2"}
NextLoop == RegistryNext(LoopTasks)
SpecLoop == Init /\ [][NextLoop]_vars

\* The domain operations: two coroutines of one asyncio loop call them on
\* one instance, against start and close.
OpsTasks == {"a1", "a2"}
Names == {NoneV, "", "docs"}
Ids == {NoneV, "uuid-1"}
BatchSizes == 0..(ServerMax + 1)
NextOps ==
    \/ Start("c1")
    \/ \E t \in OpsTasks : CallHeartbeat(t)
    \/ \E t \in OpsTasks, name \in Names, id \in Ids : CallGetCollection(t, name, id)
    \/ \E t \in OpsTasks : CallGetMaxBatchSize(t)
    \/ \E t \in OpsTasks, o \in {"add", "update", "upsert"}, n \in BatchSizes,
          ok \in BOOLEAN : CallAdd(t, o, n, ok)
    \/ \E t \in OpsTasks : CallClose(t)
    \/ \E t \in OpsTasks : GetClientNew(t)
    \/ \E t \in OpsTasks : GetClientReturn(t)
    \/ \E t \in OpsTasks, out \in Outcomes : Response(t, out)
    \/ \E t \in OpsTasks : CleanupTest(t)
    \/ \E t \in OpsTasks : CleanupPop(t)
    \/ \E t \in OpsTasks : CleanupClose(t)
    \/ \E t \in OpsTasks, run \in BOOLEAN : Stop(t, run)
SpecOps == Init /\ [][NextOps]_vars

\* get and query: one coroutine calls them on a started instance and the
\* server answers a body or a failure.
GetTasks == {"a1"}
Pages == {PyNone, PyInt(0), PyInt(2)}
PageSizes == {PyNone, PyInt(0), PyInt(3)}
LimitOffsets == {<<PyNone, PyNone>>, <<PyInt(5), PyInt(7)>>}
Includes == {PyList(<<"metadatas", "documents">>), PyList(<<"embeddings">>)}
Lists == {PyList(<<>>), PyList(<<"x">>)}
GetFields == {"embeddings", "metadatas", "documents", "uris"}
QueryFields == GetFields \cup {"distances"}
FieldsOf(o) == IF o = "get" THEN GetFields ELSE QueryFields
\* The bodies a success response decodes to: ids, and any of the others.
Bodies(o) ==
    UNION {[K \cup {"ids"} -> Lists] : K \in SUBSET (FieldsOf(o) \cup {"included"})}
Failures == Outcomes \ {"ok"}
NextGet ==
    \/ Start("c1")
    \/ \E t \in GetTasks, page \in Pages, page_size \in PageSizes,
          lo \in LimitOffsets, include \in Includes :
            CallGet(t, page, page_size, lo[1], lo[2], include)
    \/ \E t \in GetTasks, include \in Includes : CallQuery(t, include)
    \/ \E t \in GetTasks : GetClientNew(t)
    \/ \E t \in GetTasks : GetClientReturn(t)
    \/ \E t \in GetTasks, out \in Failures : Response(t, out)
    \/ \E t \in GetTasks, resp_json \in Bodies("query") : ResponseJson(t, resp_json)
SpecGet == Init /\ [][NextGet]_vars

\* ------------------------------------------------------------------ claims
DomainOps == {"heartbeat", "get_collection", "get_max_batch_size",
              "add", "update", "upsert"}
AddOps == {"add", "update", "upsert"}
\* The contexts whose dispatches received connection c.
Dispatched(c) == conns[c].ctxs # {}

\* C1 (as stated): any two dispatches with the same key receive the same
\* connection object, whatever happens between them: no two connections
\* are ever handed to dispatches of one key.
C1_SameKeySameConnection ==
    \A c, d \in ConnIds :
        c # d /\ Dispatched(c) /\ Dispatched(d) => conns[c].key # conns[d].key

\* C1 (amended): a _get_client call returns the connection last returned for
\* its key, unless since then the table entry of the key was removed by a
\* _cleanup or written by a _get_client call that had tested the key absent.
C1_ReuseWhileEntryUnchanged ==
    [][\A t \in Tasks :
         (pc[t] = "gc_ret" /\ pc'[t] # "gc_ret" /\ issued[loop_hash(t)] # 0)
             => issued'[loop_hash(t)] = issued[loop_hash(t)]]_vars

\* Two coroutines of one loop have their requests in flight on one connection.
C1_Witness ==
    /\ pc["a1"] = "await" /\ pc["a2"] = "await"
    /\ conn["a1"] # 0 /\ conn["a1"] = conn["a2"]

C3_NoOrphanConnection ==
    \A c \in ConnIds :
        Open(c) /\ ~InTable(c) => \E t \in Tasks : client[t] = c

\* C4 (as stated): a domain operation called while the client is not
\* running ends in the calling step with the lifecycle error, has dispatched
\* no request and leaves the table and the set of connections as they were.
C4_LifecycleGate ==
    [][(ev'.called /\ ev'.op \in DomainOps /\ ~ev'.running)
         => /\ ev'.what = "done"
            /\ ev'.res = "LifecycleError"
            /\ ev'.reqs = <<>>
            /\ pc'[ev'.t] = "idle"
            /\ _clients' = _clients
            /\ conns' = conns
            /\ preflights' = preflights]_vars

\* An add is refused on a client that had fetched its maximum and was then
\* closed.
C4_Witness ==
    /\ ev.what = "done" /\ ev.called /\ ev.op = "add"
    /\ ev.res = "LifecycleError"
    /\ ~_running["c1"]
    /\ _max_batch_size["c1"] # Unfetched

\* C5 (as stated, at the moment close() returns; the claim adds that it
\* stays so): the table is empty and every connection ever created is closed.
C5_NothingLeftAfterClose ==
    (ev.what = "done" /\ ev.op = "close" /\ ev.res = "ok")
        => /\ _clients = <<>>
           /\ \A c \in ConnIds : ~Open(c)

IsPreflight(r) == r.method = "get" /\ r.path = PreflightPath
NPreflights(rq) == Cardinality({j \in 1..Len(rq) : IsPreflight(rq[j])})

\* C6 (as stated): at most one GET /pre-flight-checks per client instance.
C6_AtMostOnePreflight ==
    \A i \in Insts : preflights[i] <= 1

\* C6 (amended): a GET /pre-flight-checks is dispatched only by a call that
\* finds the cached maximum unfetched, and at most once by one operation;
\* once a fetched value is stored, no call dispatches another.
C6_FetchOnlyWhileUnfetched ==
    [][/\ \A i \in Insts :
            preflights'[i] # preflights[i]
                => /\ _max_batch_size[i] = Unfetched
                   /\ preflights'[i] = preflights[i] + 1
       /\ \A t \in Tasks : NPreflights(reqs'[t]) <= 1]_vars

\* A call returns the cached maximum without a request, after a fetch.
C6_Witness ==
    /\ ev.what = "done" /\ ev.called /\ ev.op = "get_max_batch_size"
    /\ ev.res = "ok" /\ ev.reqs = <<>>
    /\ preflights["c1"] >= 1

Oversize(a) == a.n > ServerMax
OnlyPreflight(rq) == Len(rq) <= 1 /\ \A j \in 1..Len(rq) : IsPreflight(rq[j])
\* C7 (as stated): add, update and upsert of a batch larger than the server's
\* maximum dispatch no request of any kind and, on a running client, end
\* with the validation error.
C7_OversizeNoRequest ==
    /\ \A t \in Tasks : op[t] \in AddOps /\ Oversize(args[t]) => reqs[t] = <<>>
    /\ (ev.what = "done" /\ ev.op \in AddOps /\ Oversize(ev.args))
           => ev.reqs = <<>>

\* C7 (amended): such a batch is never posted: the operation dispatches at
\* most one request, the GET /pre-flight-checks that fetches an unfetched
\* maximum, and ends with the validation error unless the client was not
\* running when it was called or that fetch failed.
C7_OversizeNeverPosted ==
    /\ \A t \in Tasks :
           op[t] \in AddOps /\ Oversize(args[t]) => OnlyPreflight(reqs[t])
    /\ (ev.what = "done" /\ ev.op \in AddOps /\ Oversize(ev.args))
           => /\ OnlyPreflight(ev.reqs)
              /\ ev.res \in {"ValueError", "LifecycleError"} \cup Failures
              /\ ev.res = "LifecycleError"
                     => ev.called /\ ~ev.running /\ ev.reqs = <<>>
              /\ ev.res \in Failures => Len(ev.reqs) = 1

\* An oversize batch is refused after the maximum was fetched for it.
C7_Witness ==
    /\ ev.what = "done" /\ ev.op \in AddOps /\ Oversize(ev.args)
    /\ ev.res = "ValueError" /\ Len(ev.reqs) = 1

BothOrNeither(a) == (a.name = NoneV) = (a.id = NoneV)

\* C9 (as stated; a request is a call of _make_request): on a running client
\* get_collection with both or neither of name and id raises the validation
\* error and dispatches nothing; with exactly one it dispatches one request.
C9_ExactlyOneOfNameAndId ==
    /\ (ev.op = "get_collection" /\ ev.called /\ ev.running)
           => IF BothOrNeither(ev.args)
              THEN ev.what = "done" /\ ev.res = "ValueError" /\ ev.reqs = <<>>
              ELSE ev.what = "call" /\ Len(ev.reqs) = 1
    /\ (ev.op = "get_collection" /\ ev.what = "done" /\ ~ev.called)
           => Len(ev.reqs) = 1 /\ ~BothOrNeither(ev.args)
    /\ \A t \in Tasks :
           op[t] = "get_collection" => Len(reqs[t]) = 1 /\ ~BothOrNeither(args[t])

\* get_collection by id has returned after one request.
C9_Witness ==
    /\ ev.what = "done" /\ ev.op = "get_collection" /\ ev.res = "ok"
    /\ ev.args.id # NoneV /\ ev.args.name = NoneV
    /\ Len(ev.reqs) = 1

ParamNames(r) == {q[1] : q \in r.params}

\* C10 (as stated): get_collection requests GET /collections/{name} by name
\* and GET /collections/{id} with a type parameter by id; the query carries
\* tenant and database.
C10_GetCollectionEndpoint ==
    \A t \in Tasks :
        (op[t] = "get_collection" /\ reqs[t] # <<>>)
            => LET r == reqs[t][1]
                   a == args[t]
               IN  /\ r.method = "get"
                   /\ {"tenant", "database"} \subseteq ParamNames(r)
                   /\ r.path[1] = "/collections/"
                   /\ a.id = NoneV
                          => r.path = <<"/collections/", a.name>>
                             /\ "type" \notin ParamNames(r)
                   /\ a.id # NoneV
                          => r.path = <<"/collections/", str(a.id)>>
                             /\ "type" \in ParamNames(r)

Given(v) == v # PyNone

\* C11 (as stated): the body of get carries offset = (page-1)*page_size and
\* limit = page_size whenever page and page_size are both given, and the
\* caller's limit and offset otherwise.
C11_Pagination ==
    \A t \in Tasks :
        (op[t] = "get" /\ reqs[t] # <<>>)
            => LET b == reqs[t][1].json
                   a == args[t]
               IN  IF Given(a.page) /\ Given(a.page_size)
                   THEN /\ b.offset = PyInt((a.page.int - 1) * a.page_size.int)
                        /\ b.limit = a.page_size
                   ELSE /\ b.offset = a.offset
                        /\ b.limit = a.limit

\* C13 (as stated): get and query return every optional field of the response
\* unchanged and None for each one missing; included is the server's list,
\* or the caller's include when the response has none; data is None.
C13_ResultMarshaling ==
    (ev.what = "done" /\ ev.op \in {"get", "query"} /\ ev.res = "ok")
        => /\ \A f \in FieldsOf(ev.op) :
                  ev.val[f] = IF f \in DOMAIN ev.body THEN ev.body[f] ELSE PyNone
           /\ ev.val.included = IF "included" \in DOMAIN ev.body
                                THEN ev.body["included"] ELSE ev.args.include
           /\ ev.val.data = PyNone
           /\ ev.val.ids = ev.body["ids"]

\* query returned a response that has empty documents, no distances and no
\* included list.
C13_Witness ==
    /\ ev.what = "done" /\ ev.op = "query" /\ ev.res = "ok"
    /\ "documents" \in DOMAIN ev.body /\ ev.body["documents"] = PyList(<<>>)
    /\ "distances" \notin DOMAIN ev.body
    /\ "included" \notin DOMAIN ev.body
    /\ ev.val.documents = PyList(<<>>)
    /\ ev.val.distances = PyNone

NoRepeat(rq) == \A j, k \in 1..Len(rq) : j # k => rq[j] # rq[k]

\* C12 (as stated): a failed dispatch ends its operation in the step in
\* which the failure arrives, with that error and with the requests
\* dispatched so far, the failed one last; no request is dispatched twice,
\* and add, update and upsert post nothing after a failed pre-flight fetch.
C12_NoInternalRetry ==
    [][/\ \A t \in Tasks : NoRepeat(reqs'[t])
       /\ (ev'.what = "done" /\ ev'.res \in Failures)
              => /\ pc[ev'.t] = "await"
                 /\ pc'[ev'.t] = "idle"
                 /\ ev'.reqs = reqs[ev'.t]
                 /\ ev'.reqs # <<>>
                 /\ NoRepeat(ev'.reqs)
                 /\ reqs'[ev'.t] = <<>>
                 /\ preflights' = preflights
                 /\ IsPreflight(ev'.reqs[Len(ev'.reqs)]) => Len(ev'.reqs) = 1
       /\ \A t \in Tasks :
              (pc[t] = "await" /\ pc'[t] # "await" /\ Len(reqs'[t]) > Len(reqs[t]))
                  => _max_batch_size'[InstOf(t)] # Unfetched]_vars

\* An add ended with the failure of its pre-flight fetch, its only request.
C12_Witness ==
    /\ ev.what = "done" /\ ev.op = "add" /\ ev.res \in Failures
    /\ Len(ev.reqs) = 1 /\ IsPreflight(ev.reqs[1])

\* C14 (as stated): every connection in the table is open, and every open
\* connection is in the table under exactly one key.
C14_RegistryInvariant ==
    /\ \A j \in 1..Len(_clients) : Open(_clients[j].c)
    /\ \A c \in ConnIds :
           Open(c) => Cardinality({j \in 1..Len(_clients) : _clients[j].c = c}) = 1

CleanupPcs == {"cl_test", "cl_pop", "cl_close"}

C16_DispatchKeepsEntries ==
    [][\A t \in Tasks :
         (op[t] \in DomainOps /\ pc[t] \in {"gc_new", "gc_ret", "await"}
             /\ pc'[t] # pc[t])
             => \A j \in 1..Len(_clients) :
                    /\ HasKey(_clients', _clients[j].k)
                    /\ Lookup(_clients', _clients[j].k) = _clients[j].c
                    /\ conns'[_clients[j].c].closes = 0]_vars

PreflightRequest == Request("get", PreflightPath, {}, "")
BatchPost(o) == Request("post", <<"/collections/", str(CollectionId), "/" \o o>>, {}, "batch")
NPosts(rq) == Cardinality({j \in 1..Len(rq) : rq[j].method = "post"})
Valid(a) == a.ok /\ a.n <= ServerMax
Validated(e) == e.res \notin Failures /\ ~(e.called /\ e.res = "LifecycleError")

\* C17 (as stated): add, update and upsert dispatch GET /pre-flight-checks
\* only while the maximum is unfetched and before any POST; a batch that
\* passes validation is posted exactly once to its endpoint, one that fails
\* it is never posted, and the operation returns only after its POST
\* succeeded.
C17_ValidBatchPostedOnce ==
    (ev.what = "done" /\ ev.op \in AddOps /\ Validated(ev))
        => /\ NPosts(ev.reqs) = (IF Valid(ev.args) THEN 1 ELSE 0)
           /\ ev.res = "ok" => ev.reqs[Len(ev.reqs)] = BatchPost(ev.op)

AddSequence(rq, o) ==
    rq \in {<<>>, <<PreflightRequest>>, <<BatchPost(o)>>,
            <<PreflightRequest, BatchPost(o)>>}

\* C17 (amended): the dispatches of add, update and upsert are a GET
\* /pre-flight-checks, made at the call and only while the maximum is
\* unfetched, then at most one POST to the operation's endpoint; an invalid
\* batch is never posted; a valid one is posted exactly once unless the
\* fetch failed or the client was stopped before the POST, and then the
\* operation raises; it returns only after its POST succeeded.
C17_AddRequestSequence ==
    [][/\ \A t \in Tasks :
              op'[t] \in AddOps
                  => /\ AddSequence(reqs'[t], op'[t])
                     /\ NPosts(reqs'[t]) > 0 => Valid(args'[t])
                     /\ NPreflights(reqs'[t]) > NPreflights(reqs[t])
                            => /\ _max_batch_size[InstOf(t)] = Unfetched
                               /\ reqs[t] = <<>>
       /\ (ev'.what = "done" /\ ev'.op \in AddOps)
              => /\ AddSequence(ev'.reqs, ev'.op)
                 /\ ev'.res \in {"ok", "ValueError", "LifecycleError"} \cup Failures
                 /\ ev'.res = "ok"
                        => /\ Valid(ev'.args)
                           /\ NPosts(ev'.reqs) = 1
                           /\ pc[ev'.t] = "await"
                 /\ ev'.res = "ValueError" => ~Valid(ev'.args) /\ NPosts(ev'.reqs) = 0
                 /\ ev'.res = "LifecycleError"
                        => NPosts(ev'.reqs) = 0 /\ ~_running[InstOf(ev'.t)]
                 /\ ~Valid(ev'.args) => NPosts(ev'.reqs) = 0]_vars

\* An upsert returned after its pre-flight fetch and its POST.
C17_Witness ==
    /\ ev.what = "done" /\ ev.op = "upsert" /\ ev.res = "ok"
    /\ ev.reqs = <<PreflightRequest, BatchPost("upsert")>>

\* C18 (as stated): the connection a suspended dispatch has its request in
\* flight on is open.
C18_NoCloseInFlight ==
    \A t \in Tasks : pc[t] = "await" => Open(conn[t])

\* C19 (as stated): a failed fetch leaves _max_batch_size as it was, so that
\* the next call on the running client fetches again; a stored value is
\* never unset, and a call on the running client then returns it without a
\* request.
C19_FailedFetchLeavesCache ==
    [][/\ (ev'.what = "done" /\ ev'.res \in Failures)
              => _max_batch_size' = _max_batch_size
       /\ \A i \in Insts :
              _max_batch_size[i] # Unfetched => _max_batch_size'[i] = _max_batch_size[i]
       /\ (ev'.called /\ ev'.op = "get_max_batch_size" /\ ev'.running)
              => LET i == InstOf(ev'.t)
                 IN  IF _max_batch_size[i] = Unfetched
                     THEN /\ ev'.what = "call"
                          /\ ev'.reqs = <<PreflightRequest>>
                          /\ preflights'[i] = preflights[i] + 1
                     ELSE /\ ev'.what = "done" /\ ev'.res = "ok"
                          /\ ev'.reqs = <<>>
                          /\ get_max_batch_size(i) = Return(_max_batch_size[i])
                          /\ preflights' = preflights]_vars

\* A call fetches again after the only earlier fetch has failed.
C19_Witness ==
    /\ ev.what = "call" /\ ev.op = "get_max_batch_size"
    /\ preflights["c1"] = 2
    /\ _max_batch_size["c1"] = Unfetched
    /\ \A t \in Tasks \ {ev.t} : pc[t] = "idle"

InstsOf(x) == {InstOf(t) : t \in {u \in Tasks : ContextOf(u) = x}}
\* The instances connection c belongs to: the one that created it and those
\* whose dispatches received it.
UsersOf(c) == {conns[c].by} \cup UNION {InstsOf(x) : x \in conns[c].ctxs}

\* C20 (as stated): a _cleanup removes and closes only connections of its
\* own instance, never one that belongs only to other instances of which one
\* is still running.
C20_CleanupOwnConnections ==
    [][\A t \in Tasks :
         (pc[t] = "cl_pop" /\ pc'[t] = "cl_close")
             => \/ InstOf(t) \in UsersOf(client'[t])
                \/ \A i \in UsersOf(client'[t]) : ~_running[i]]_vars

====
